---- MODULE Spec2Model ----
(***************************************************************************)
(* Speeduino serial simulator: the engine simulation (EngineSimulator),    *)
(* the wire record (EngineStatus) and the serial protocol handler          *)
(* (SpeeduinoProtocol), driven by a single-threaded polling loop.          *)
(*                                                                         *)
(* Integer widths follow the C++ types on the 32-bit targets of the        *)
(* repository (ESP8266/ESP32: int is 32 bits wide), so an arithmetic       *)
(* expression is evaluated exactly and then narrowed to the width of the   *)
(* variable it is stored in.  The 32-bit quantities (the millisecond      *)
(* clock, the tick and command counters, the pulse-width product) stay far *)
(* below 2^31 within the bounds of the model and are plain integers.       *)
(***************************************************************************)
EXTENDS Integers, Sequences, FiniteSets, TLC

(***************************************************************************)
(* Config.h                                                                *)
(***************************************************************************)
RPM_MIN == 0
RPM_IDLE_MIN == 700
RPM_IDLE_MAX == 900
RPM_CRUISE == 2500
RPM_HIGH_START == 5000
RPM_MAX == 7000
RPM_REDLINE == 6800
TEMP_AMBIENT == 200
TEMP_ENGINE_WARM == 800
TEMP_ENGINE_HOT == 950
MAP_ATMOSPHERIC == 100
MAP_IDLE == 35
MAP_WOT == 95
BARO_SEALEVEL == 100
VOLTAGE_NORMAL == 140
AFR_STOICH == 147
AFR_RICH == 130
AFR_LEAN == 160
AFR_WOT == 125
TPS_IDLE == 2
TPS_CRUISE == 20
TPS_HALF == 50
TPS_WOT == 100
TIMING_IDLE == 15
TIMING_MAX == 35
PW_MIN == 10
PW_MAX == 255
WARMUP_TIME_MS == 30000
UPDATE_INTERVAL_MS == 50
STATE_TRANSITION_MS == 5000
FREE_RAM == 8192
StatusSize == 79
InputBufferSize == 256
OutputBufferSize == 512

FIRMWARE_VERSION == <<50, 46, 48, 46, 48>>
SPEEDUINO_SIGNATURE ==
    <<115, 112, 101, 101, 100, 117, 105, 110, 111, 32, 50, 48, 50, 51, 49, 48>>

(***************************************************************************)
(* C integer arithmetic: narrowing to 8 and 16 bits                        *)
(***************************************************************************)
U8(x) == x % 256
U16(x) == x % 65536
S8(x) == LET m == x % 256 IN IF m >= 128 THEN m - 256 ELSE m
S16(x) == LET m == x % 65536 IN IF m >= 32768 THEN m - 65536 ELSE m

\* C division truncates toward zero; b is positive at every use.
CDiv(a, b) == IF a >= 0 THEN a \div b ELSE -((-a) \div b)

Min(a, b) == IF a <= b THEN a ELSE b

(***************************************************************************)
(* EngineMode                                                              *)
(***************************************************************************)
EngineMode ==
    {"STARTUP", "WARMUP_IDLE", "IDLE", "LIGHT_LOAD",
     "ACCELERATION", "HIGH_RPM", "DECELERATION", "WOT"}

(***************************************************************************)
(* EngineStatus: the 79-byte wire record, one record field per byte;       *)
(* canin[i + 1] is the C array element canin[i].                           *)
(***************************************************************************)
ZeroStatus ==
    [response |-> 0, secl |-> 0, status1 |-> 0, engine |-> 0, dwell |-> 0,
     maplo |-> 0, maphi |-> 0, iat |-> 0, clt |-> 0, batcorrection |-> 0,
     batteryv |-> 0, o2 |-> 0, egocorrection |-> 0, iatcorrection |-> 0,
     wue |-> 0, rpmlo |-> 0, rpmhi |-> 0, taeamount |-> 0, gammae |-> 0,
     ve |-> 0, afrtarget |-> 0, pw1lo |-> 0, pw1hi |-> 0, tpsdot |-> 0,
     advance |-> 0, tps |-> 0, loopslo |-> 0, loopshi |-> 0,
     freeramlo |-> 0, freeramhi |-> 0, boosttarget |-> 0, boostduty |-> 0,
     spark |-> 0, rpmdotlo |-> 0, rpmdothi |-> 0, ethanolpct |-> 0,
     flexcorrection |-> 0, flexigncorrection |-> 0, idleload |-> 0,
     testoutputs |-> 0, o2_2 |-> 0, baro |-> 0,
     canin |-> [i \in 1..32 |-> 0],
     tpsadc |-> 0, errors |-> 0, unused1 |-> 0, unused2 |-> 0, unused3 |-> 0]

\* The record as it lies in memory (#pragma pack(1)): what a raw byte copy
\* of the struct yields.
StatusBytes(st) ==
    <<st.response, st.secl, st.status1, st.engine, st.dwell,
      st.maplo, st.maphi, st.iat, st.clt, st.batcorrection,
      st.batteryv, st.o2, st.egocorrection, st.iatcorrection,
      st.wue, st.rpmlo, st.rpmhi, st.taeamount, st.gammae,
      st.ve, st.afrtarget, st.pw1lo, st.pw1hi, st.tpsdot,
      st.advance, st.tps, st.loopslo, st.loopshi,
      st.freeramlo, st.freeramhi, st.boosttarget, st.boostduty,
      st.spark, st.rpmdotlo, st.rpmdothi, st.ethanolpct,
      st.flexcorrection, st.flexigncorrection, st.idleload,
      st.testoutputs, st.o2_2, st.baro>>
    \o st.canin
    \o <<st.tpsadc, st.errors, st.unused1, st.unused2, st.unused3>>

setRPM(st, rpm) ==
    [st EXCEPT !.rpmlo = rpm % 256, !.rpmhi = (rpm \div 256) % 256]
getRPM(st) == st.rpmhi * 256 + st.rpmlo

setMAP(st, map) ==
    [st EXCEPT !.maplo = map % 256, !.maphi = (map \div 256) % 256]
getMAP(st) == st.maphi * 256 + st.maplo

setPulseWidth(st, pw) ==
    [st EXCEPT !.pw1lo = pw % 256, !.pw1hi = (pw \div 256) % 256]
getPulseWidth(st) == st.pw1hi * 256 + st.pw1lo

\* rpmdot is an int16_t: & 0xFF and >> 8 act on its two's complement.
setRPMDot(st, rpmdot) ==
    [st EXCEPT !.rpmdotlo = U16(rpmdot) % 256,
               !.rpmdothi = (U16(rpmdot) \div 256) % 256]

\* A getter that leaves out the conversion to int16_t.
getRPMDotUnsigned(st) == st.rpmdothi * 256 + st.rpmdotlo

\* The int value (rpmdothi << 8) | rpmdotlo is narrowed to the int16_t
\* return type.
getRPMDot(st) == S16(st.rpmdothi * 256 + st.rpmdotlo)

\* The parameter is an int8_t: the caller's int is narrowed first.
setCoolantTemp(st, celsius) == [st EXCEPT !.clt = U8(S8(celsius) + 40)]
getCoolantTemp(st) == S8(S8(st.clt) - 40)
setIntakeTemp(st, celsius) == [st EXCEPT !.iat = U8(S8(celsius) + 40)]
getIntakeTemp(st) == S8(S8(st.iat) - 40)

(***************************************************************************)
(* IRandomProvider.  The generator is an external collaborator; each call  *)
(* random(min, max) returns some value of min .. max - 1.  A draw record d *)
(* fixes the outcome of every call one update() or setMode() can make:     *)
(* percentage rolls (random(100)) carry the value itself, every other site *)
(* carries a position u in 0..2 that selects the lowest, the middle or the *)
(* highest value of the site's range.                                      *)
(***************************************************************************)
RandomRange(min, max) == min .. (max - 1)

Rnd(u, min, max) == min + (u * (max - min - 1)) \div 2

(***************************************************************************)
(* EngineSimulator.  e is the object (its members, status among them, and  *)
(* the two function-local statics lastTPS and egoTrend); rngDraws counts   *)
(* the values the object has drawn from its random provider.               *)
(***************************************************************************)
Constructed ==
    [currentMode |-> "STARTUP", lastUpdateTime |-> 0, stateStartTime |-> 0,
     engineStartTime |-> 0, targetRPM |-> 0, currentRPM |-> 0,
     rpmAcceleration |-> 0, targetThrottle |-> 0, currentThrottle |-> 0,
     coolantTemp |-> TEMP_AMBIENT, intakeTemp |-> TEMP_AMBIENT,
     exhaustTemp |-> TEMP_AMBIENT, pulseWidth |-> 0, injectorDutyCycle |-> 0,
     loopCounter |-> 0, secondCounter |-> 0,
     status |-> ZeroStatus, lastTPS |-> 0, egoTrend |-> 1, rngDraws |-> 0]

\* An initialize() that sets its fields without zeroing the record first.
initializeWithoutZeroing(e, now) ==
    [e EXCEPT
       !.status = [setMAP(setIntakeTemp(setCoolantTemp(setRPM(
                      [e.status EXCEPT !.response = 65], 0),
                      CDiv(TEMP_AMBIENT, 10)), CDiv(TEMP_AMBIENT, 10)),
                      MAP_ATMOSPHERIC)
                   EXCEPT !.batteryv = VOLTAGE_NORMAL \div 10,
                          !.baro = BARO_SEALEVEL,
                          !.tps = TPS_IDLE],
       !.currentMode = "STARTUP",
       !.engineStartTime = now,
       !.lastUpdateTime = now,
       !.stateStartTime = now,
       !.currentRPM = 0,
       !.targetRPM = RPM_IDLE_MIN + 200,
       !.coolantTemp = TEMP_AMBIENT,
       !.intakeTemp = TEMP_AMBIENT,
       !.exhaustTemp = TEMP_AMBIENT,
       !.currentThrottle = TPS_IDLE,
       !.targetThrottle = TPS_IDLE,
       !.loopCounter = 0,
       !.secondCounter = 0]

initialize(e, now) ==
    [e EXCEPT
       !.status = [setMAP(setIntakeTemp(setCoolantTemp(setRPM(
                      [ZeroStatus EXCEPT !.response = 65], 0),
                      CDiv(TEMP_AMBIENT, 10)), CDiv(TEMP_AMBIENT, 10)),
                      MAP_ATMOSPHERIC)
                   EXCEPT !.batteryv = VOLTAGE_NORMAL \div 10,
                          !.baro = BARO_SEALEVEL,
                          !.tps = TPS_IDLE],
       !.currentMode = "STARTUP",
       !.engineStartTime = now,
       !.lastUpdateTime = now,
       !.stateStartTime = now,
       !.currentRPM = 0,
       !.targetRPM = RPM_IDLE_MIN + 200,
       !.coolantTemp = TEMP_AMBIENT,
       !.intakeTemp = TEMP_AMBIENT,
       !.exhaustTemp = TEMP_AMBIENT,
       !.currentThrottle = TPS_IDLE,
       !.targetThrottle = TPS_IDLE,
       !.loopCounter = 0,
       !.secondCounter = 0]

transitionToMode(e, newMode, d, now) ==
    LET r1(min, max) == Rnd(d.t1, min, max)
        r2(min, max) == Rnd(d.t2, min, max)
        t == CASE newMode = "STARTUP" ->
                    [rpm |-> RPM_IDLE_MIN + 200, thr |-> TPS_IDLE + 5,
                     acc |-> 500, n |-> 0]
               [] newMode = "WARMUP_IDLE" ->
                    [rpm |-> RPM_IDLE_MIN + 150, thr |-> TPS_IDLE + 3,
                     acc |-> 100, n |-> 0]
               [] newMode = "IDLE" ->
                    [rpm |-> RPM_IDLE_MIN + r1(-50, 50), thr |-> TPS_IDLE,
                     acc |-> 50, n |-> 1]
               [] newMode = "LIGHT_LOAD" ->
                    [rpm |-> RPM_CRUISE + r1(-300, 300),
                     thr |-> TPS_CRUISE + r2(-5, 10), acc |-> 200, n |-> 2]
               [] newMode = "ACCELERATION" ->
                    [rpm |-> RPM_HIGH_START + r1(-500, 500),
                     thr |-> TPS_HALF + r2(10, 40), acc |-> 1000, n |-> 2]
               [] newMode = "HIGH_RPM" ->
                    [rpm |-> RPM_REDLINE - r1(100, 500),
                     thr |-> TPS_WOT - r2(0, 20), acc |-> 500, n |-> 2]
               [] newMode = "DECELERATION" ->
                    [rpm |-> RPM_IDLE_MAX + r1(0, 500), thr |-> TPS_IDLE,
                     acc |-> -800, n |-> 1]
               [] OTHER ->
                    [rpm |-> RPM_REDLINE, thr |-> TPS_WOT,
                     acc |-> 1500, n |-> 0]
    IN [e EXCEPT !.currentMode = newMode,
                 !.stateStartTime = now,
                 !.targetRPM = U16(t.rpm),
                 !.targetThrottle = U8(t.thr),
                 !.rpmAcceleration = t.acc,
                 !.rngDraws = @ + t.n]

\* A state machine whose only edge leads from HIGH_RPM back to WOT.
updateStateMachineToWot(e, d, now) ==
    IF e.currentMode = "HIGH_RPM" /\ (now - e.stateStartTime) > 2000
    THEN transitionToMode(e, "WOT", d, now) ELSE e

updateStateMachine(e, d, now) ==
    LET timeInState == (now - e.stateStartTime)
        roll == [e EXCEPT !.rngDraws = @ + 1]
    IN CASE e.currentMode = "STARTUP" ->
              IF timeInState > 1000 /\ e.currentRPM > RPM_IDLE_MIN \div 2
              THEN transitionToMode(e, "WARMUP_IDLE", d, now) ELSE e
         [] e.currentMode = "WARMUP_IDLE" ->
              IF e.coolantTemp > 600
              THEN transitionToMode(e, "IDLE", d, now) ELSE e
         [] e.currentMode = "IDLE" ->
              IF timeInState > STATE_TRANSITION_MS
              THEN IF d.sm < 30
                   THEN transitionToMode(roll, "LIGHT_LOAD", d, now)
                   ELSE IF d.sm < 35
                        THEN transitionToMode(roll, "ACCELERATION", d, now)
                        ELSE roll
              ELSE e
         [] e.currentMode = "LIGHT_LOAD" ->
              IF timeInState > STATE_TRANSITION_MS
              THEN IF d.sm < 40
                   THEN transitionToMode(roll, "ACCELERATION", d, now)
                   ELSE IF d.sm < 70
                        THEN transitionToMode(roll, "DECELERATION", d, now)
                        ELSE transitionToMode(roll, "IDLE", d, now)
              ELSE e
         [] e.currentMode = "ACCELERATION" ->
              IF e.currentRPM > RPM_HIGH_START
              THEN transitionToMode(e, "HIGH_RPM", d, now)
              ELSE IF timeInState > 3000
                   THEN IF d.sm < 30
                        THEN transitionToMode(roll, "LIGHT_LOAD", d, now)
                        ELSE roll
                   ELSE e
         [] e.currentMode = "HIGH_RPM" ->
              IF timeInState > 2000
              THEN transitionToMode(e, "DECELERATION", d, now) ELSE e
         [] e.currentMode = "DECELERATION" ->
              IF e.currentRPM < RPM_IDLE_MAX + 200
              THEN transitionToMode(e, "IDLE", d, now) ELSE e
         [] OTHER ->
              IF timeInState > 3000 \/ e.currentRPM > RPM_REDLINE
              THEN transitionToMode(e, "HIGH_RPM", d, now) ELSE e

\* addNoise(value, range), SENSOR_NOISE_ENABLED = 1; u is the draw position.
addNoise(value, range, u) == S8(value + Rnd(u, -range, range + 1))

\* interpolate() without the rate limit: straight to the target.
interpolateUnlimited(current, target, rate) == S16(target)

\* interpolate() stepping away from the target.
interpolateAway(current, target, rate) ==
    LET delta == S16(target - current)
        maxChange == S16(CDiv(delta * rate, 100))
        step == IF maxChange = 0 /\ delta # 0
                THEN (IF delta > 0 THEN 1 ELSE -1) ELSE maxChange
    IN S16(current - step)

interpolate(current, target, rate) ==
    LET delta == S16(target - current)
        maxChange == S16(CDiv(delta * rate, 100))
        step == IF maxChange = 0 /\ delta # 0
                THEN (IF delta > 0 THEN 1 ELSE -1) ELSE maxChange
    IN S16(current + step)

mapValue(x, in_min, in_max, out_min, out_max) ==
    U16(CDiv((x - in_min) * (out_max - out_min), in_max - in_min) + out_min)

simulateRPM(e, d) ==
    LET delta == S16(CDiv(e.rpmAcceleration * UPDATE_INTERVAL_MS, 1000))
        moved == U16(e.currentRPM + delta)
        r1 == IF e.currentRPM < e.targetRPM
              THEN (IF moved > e.targetRPM THEN e.targetRPM ELSE moved)
              ELSE IF e.currentRPM > e.targetRPM
                   THEN (IF moved < e.targetRPM THEN e.targetRPM ELSE moved)
                   ELSE e.currentRPM
        r2 == IF S16(r1) < RPM_MIN THEN RPM_MIN ELSE r1
        r3 == IF r2 > RPM_MAX THEN RPM_MAX ELSE r2
        idling == e.currentMode \in {"IDLE", "WARMUP_IDLE"}
        r4 == IF idling THEN U16(r3 + Rnd(d.jitter, -10, 10)) ELSE r3
    IN [e EXCEPT !.currentRPM = r4,
                 !.status = setRPMDot(setRPM(@, r4), e.rpmAcceleration),
                 !.rngDraws = @ + (IF idling THEN 1 ELSE 0)]

simulateThermal(e) ==
    LET targetCoolantTemp ==
            IF e.currentMode \in {"WOT", "HIGH_RPM"} THEN TEMP_ENGINE_HOT
            ELSE IF e.currentMode \in {"IDLE", "WARMUP_IDLE"}
                 THEN TEMP_ENGINE_WARM - 50
                 ELSE TEMP_ENGINE_WARM
        coolant == interpolate(e.coolantTemp, targetCoolantTemp, 5)
        base == S16(TEMP_AMBIENT + CDiv(coolant - TEMP_AMBIENT, 4))
        targetIntakeTemp ==
            IF e.currentRPM > RPM_CRUISE
            THEN S16(base - CDiv(e.currentRPM - RPM_CRUISE, 50))
            ELSE base
        intake == interpolate(e.intakeTemp, targetIntakeTemp, 10)
    IN [e EXCEPT !.coolantTemp = coolant,
                 !.intakeTemp = intake,
                 !.status = setIntakeTemp(
                                setCoolantTemp(@, CDiv(coolant, 10)),
                                CDiv(intake, 10))]

\* simulateThrottle() without the clamp of the noisy reading to 0..100.
simulateThrottleUnclamped(e, d) ==
    LET throttle == U8(interpolate(e.currentThrottle, e.targetThrottle, 20))
        noisyThrottle == S8(throttle + addNoise(0, 1, d.tps))
        tpsDelta == S16(noisyThrottle - e.lastTPS)
    IN [e EXCEPT !.currentThrottle = throttle,
                 !.status = [@ EXCEPT
                     !.tps = U8(noisyThrottle),
                     !.tpsadc = U8(CDiv(noisyThrottle * 255, 100)),
                     !.tpsdot = U8(tpsDelta * (1000 \div UPDATE_INTERVAL_MS))],
                 !.lastTPS = U8(noisyThrottle),
                 !.rngDraws = @ + 1]

simulateThrottle(e, d) ==
    LET throttle == U8(interpolate(e.currentThrottle, e.targetThrottle, 20))
        noisy == S8(throttle + addNoise(0, 1, d.tps))
        noisyThrottle == IF noisy < 0 THEN 0
                         ELSE IF noisy > 100 THEN 100 ELSE noisy
        tpsDelta == S16(noisyThrottle - e.lastTPS)
    IN [e EXCEPT !.currentThrottle = throttle,
                 !.status = [@ EXCEPT
                     !.tps = U8(noisyThrottle),
                     !.tpsadc = U8(CDiv(noisyThrottle * 255, 100)),
                     !.tpsdot = U8(tpsDelta * (1000 \div UPDATE_INTERVAL_MS))],
                 !.lastTPS = U8(noisyThrottle),
                 !.rngDraws = @ + 1]

simulateMAP(e, d) ==
    LET base0 ==
            IF e.currentThrottle < 10
            THEN U16(MAP_IDLE + CDiv(e.currentRPM - RPM_IDLE_MIN, 20))
            ELSE IF e.currentThrottle > 80
                 THEN U16(MAP_WOT - CDiv(RPM_MAX - e.currentRPM, 100))
                 ELSE mapValue(e.currentThrottle, 10, 80,
                               MAP_IDLE + 10, MAP_WOT - 5)
        baseMAP == IF e.currentRPM > RPM_HIGH_START
                   THEN U16(base0 + CDiv(e.currentRPM - RPM_HIGH_START, 100))
                   ELSE base0
        noisy == U16(baseMAP + addNoise(0, 2, d.map))
        noisyMAP == IF noisy > MAP_ATMOSPHERIC THEN MAP_ATMOSPHERIC ELSE noisy
    IN [e EXCEPT !.status = setMAP(@, noisyMAP), !.rngDraws = @ + 1]

\* calculateVE() without the final clamp to 30..100.
calculateVEUnclamped(rpm, tps) ==
    LET base == IF rpm < 1000 THEN 45
                ELSE IF rpm < 2000 THEN U8(55 + (rpm - 1000) \div 50)
                ELSE IF rpm < 4000 THEN U8(75 + (rpm - 2000) \div 100)
                ELSE IF rpm < 5500 THEN U8(85 + (rpm - 4000) \div 200)
                ELSE U8(90 - (rpm - 5500) \div 100)
    IN U8((base * (50 + tps \div 2)) \div 100)

calculateVE(rpm, tps) ==
    LET base == IF rpm < 1000 THEN 45
                ELSE IF rpm < 2000 THEN U8(55 + (rpm - 1000) \div 50)
                ELSE IF rpm < 4000 THEN U8(75 + (rpm - 2000) \div 100)
                ELSE IF rpm < 5500 THEN U8(85 + (rpm - 4000) \div 200)
                ELSE U8(90 - (rpm - 5500) \div 100)
        scaled == U8((base * (50 + tps \div 2)) \div 100)
    IN IF scaled > 100 THEN 100 ELSE IF scaled < 30 THEN 30 ELSE scaled

calculateIgnitionAdvance(rpm, load) ==
    LET a1 == IF rpm > 1000 THEN U8(TIMING_IDLE + (rpm - 1000) \div 200)
              ELSE TIMING_IDLE
        a2 == IF load > 80 THEN U8(a1 - (load - 80) \div 4)
              ELSE IF load < 40 THEN U8(a1 + (40 - load) \div 8)
              ELSE a1
    IN IF a2 > TIMING_MAX THEN TIMING_MAX ELSE IF a2 < 5 THEN 5 ELSE a2

calculateRequiredPulseWidth(rpm, map, ve) ==
    LET pw0 == (map * ve * 1000)
        pw1 == (pw0 \div (rpm + 1)) \div 10
    IN IF pw1 < PW_MIN THEN PW_MIN ELSE IF pw1 > PW_MAX THEN PW_MAX ELSE pw1

getWarmupEnrichment(coolantTemp) ==
    LET tempC == S16(CDiv(coolantTemp, 10))
    IN IF tempC < 0 THEN 140
       ELSE IF tempC < 20 THEN 130
       ELSE IF tempC < 40 THEN 120
       ELSE IF tempC < 60 THEN 110
       ELSE 100

\* simulateFuel() publishing the corrected pulse width without the clamp to
\* PW_MIN..PW_MAX.
simulateFuelUnclamped(e) ==
    LET st == e.status
        ve == calculateVE(e.currentRPM, e.currentThrottle)
        map == getMAP(st)
        pwBase == calculateRequiredPulseWidth(e.currentRPM, map, ve)
        wue == getWarmupEnrichment(e.coolantTemp)
        pulseWidth == U16((pwBase * wue) \div 100)
        c1 == U16((pulseWidth * st.egocorrection) \div 100)
        c2 == U16((c1 * st.iatcorrection) \div 100)
        tae == IF st.tpsdot > 10 THEN U8(100 + st.tpsdot \div 2) ELSE 100
        gammae == U8((st.egocorrection * st.iatcorrection * wue) \div 10000)
    IN [e EXCEPT !.pulseWidth = pulseWidth,
                 !.status = [setPulseWidth(st, c2) EXCEPT
                                !.ve = ve, !.wue = wue,
                                !.taeamount = tae, !.gammae = gammae]]

simulateFuel(e) ==
    LET st == e.status
        ve == calculateVE(e.currentRPM, e.currentThrottle)
        map == getMAP(st)
        pwBase == calculateRequiredPulseWidth(e.currentRPM, map, ve)
        wue == getWarmupEnrichment(e.coolantTemp)
        pulseWidth == U16((pwBase * wue) \div 100)
        c1 == U16((pulseWidth * st.egocorrection) \div 100)
        c2 == U16((c1 * st.iatcorrection) \div 100)
        correctedPW == IF c2 < PW_MIN THEN PW_MIN
                       ELSE IF c2 > PW_MAX THEN PW_MAX ELSE c2
        tae == IF st.tpsdot > 10 THEN U8(100 + st.tpsdot \div 2) ELSE 100
        gammae == U8((st.egocorrection * st.iatcorrection * wue) \div 10000)
    IN [e EXCEPT !.pulseWidth = pulseWidth,
                 !.status = [setPulseWidth(st, correctedPW) EXCEPT
                                !.ve = ve, !.wue = wue,
                                !.taeamount = tae, !.gammae = gammae]]

simulateIgnition(e) ==
    LET st == e.status
        load == U8((getMAP(st) * 100) \div MAP_ATMOSPHERIC)
    IN [e EXCEPT !.status = [st EXCEPT
            !.advance = calculateIgnitionAdvance(e.currentRPM, load),
            !.dwell = IF st.batteryv < 12 THEN 45 ELSE 35,
            !.spark = 1]]

simulateAFR(e, d) ==
    LET targetAFR ==
            IF e.currentMode \in {"STARTUP", "WARMUP_IDLE"} THEN AFR_RICH
            ELSE IF e.currentMode \in {"WOT", "ACCELERATION"} THEN AFR_WOT
            ELSE IF e.currentMode = "DECELERATION" THEN AFR_LEAN
            ELSE AFR_STOICH
        lambda == U16((targetAFR * 100) \div 147)
        o2raw == U8(mapValue(lambda, 50, 150, 0, 255))
    IN [e EXCEPT !.status = [@ EXCEPT
            !.afrtarget = U8(targetAFR),
            !.o2_2 = U8(o2raw + addNoise(0, 3, d.o2b)),
            !.o2 = U8(o2raw + addNoise(0, 5, d.o2))],
                 !.rngDraws = @ + 2]

simulateCorrections(e, d) ==
    LET st == e.status
        closedLoop == e.coolantTemp > 500 /\ e.currentMode # "WOT"
        ego == IF closedLoop THEN U8(st.egocorrection + e.egoTrend) ELSE 100
        trend == IF ~closedLoop THEN e.egoTrend
                 ELSE IF ego < 90 THEN 1
                 ELSE IF ego > 110 THEN -1
                 ELSE e.egoTrend
        iatCelsius == S16(CDiv(e.intakeTemp, 10))
        idle == e.currentMode = "IDLE"
    IN [e EXCEPT !.status = [st EXCEPT
            !.egocorrection = ego,
            !.iatcorrection = IF iatCelsius < 0 THEN 110
                              ELSE IF iatCelsius < 10 THEN 105 ELSE 100,
            !.batcorrection = IF st.batteryv < 12 THEN 105 ELSE 100,
            !.ethanolpct = 0,
            !.flexcorrection = 100,
            !.flexigncorrection = 0,
            !.idleload = IF idle THEN U8(30 + Rnd(d.idle, -5, 5)) ELSE 0,
            !.boosttarget = 0,
            !.boostduty = 0],
                 !.egoTrend = trend,
                 !.rngDraws = @ + (IF idle THEN 1 ELSE 0)]

simulateSensors(e) ==
    LET running == e.currentRPM > 0
    IN [e EXCEPT !.status = [@ EXCEPT
            !.status1 = (IF running THEN 1 ELSE 0)
                        + (IF e.coolantTemp > 500 THEN 2 ELSE 0),
            !.engine = (IF e.currentMode = "STARTUP" THEN 1 ELSE 0)
                       + (IF running THEN 2 ELSE 0),
            !.testoutputs = 0]]

simulateVoltage(e, d) ==
    LET baseVoltage == IF e.currentMode = "STARTUP" THEN 10
                       ELSE IF e.currentRPM > RPM_CRUISE THEN 14
                       ELSE VOLTAGE_NORMAL \div 10
    IN [e EXCEPT !.status = [@ EXCEPT
            !.batteryv = U8(baseVoltage + addNoise(0, 1, d.volt))],
                 !.rngDraws = @ + 1]

simulateCANData(e) ==
    LET st == e.status
        speed == Min(e.currentRPM \div 100, 255)
    IN [e EXCEPT !.status = [st EXCEPT !.canin = [i \in 1..32 |->
            CASE i = 1 -> (e.currentRPM \div 256) % 256
              [] i = 2 -> e.currentRPM % 256
              [] i = 3 -> speed % 256
              [] i = 5 -> st.clt
              [] i = 7 -> st.tps
              [] i \in {4, 6, 8} -> 0
              [] OTHER -> ((i - 1) * 7 + e.loopCounter) % 256]]]

\* A gate that measures the interval from the engine's start rather than
\* from the last accepted update.
updateDueSinceStart(e, now) ==
    (now - e.engineStartTime) >= UPDATE_INTERVAL_MS

\* The time gate of update(): deltaTime is a uint32_t difference.
updateDue(e, now) == (now - e.lastUpdateTime) >= UPDATE_INTERVAL_MS

\* update() once the time gate has been passed.
update(e, d, now) ==
    LET e0 == [e EXCEPT !.lastUpdateTime = now, !.loopCounter = (@ + 1)]
        e1 == IF e0.loopCounter % 20 = 0
              THEN [e0 EXCEPT !.secondCounter = U16(@ + 1),
                              !.status.secl = U16(e0.secondCounter + 1) % 256]
              ELSE e0
        e2 == updateStateMachine(e1, d, now)
        e3 == simulateRPM(e2, d)
        e4 == simulateThermal(e3)
        e5 == simulateThrottle(e4, d)
        e6 == simulateMAP(e5, d)
        e7 == simulateFuel(e6)
        e8 == simulateIgnition(e7)
        e9 == simulateAFR(e8, d)
        e10 == simulateCorrections(e9, d)
        e11 == simulateSensors(e10)
        e12 == simulateVoltage(e11, d)
        e13 == simulateCANData(e12)
        loops == e13.loopCounter % 65536
        fault == d.errRoll < 2
    IN [e13 EXCEPT
          !.status = [@ EXCEPT
              !.loopslo = loops % 256,
              !.loopshi = (loops \div 256) % 256,
              !.freeramlo = FREE_RAM % 256,
              !.freeramhi = (FREE_RAM \div 256) % 256,
              !.errors = IF fault THEN U8(Rnd(d.errCode, 1, 4)) ELSE 0],
          !.rngDraws = @ + (IF fault THEN 2 ELSE 1)]

\* A setMode() that also publishes the new target RPM in the record.
setModePublishingTarget(e, mode, d, now) ==
    LET n == transitionToMode(e, mode, d, now)
    IN [n EXCEPT !.status = setRPM(@, n.targetRPM)]

\* A setMode() that switches the mode and restarts its clock only.
setModeWithoutTargets(e, mode, d, now) ==
    [e EXCEPT !.currentMode = mode, !.stateStartTime = now]

setMode(e, mode, d, now) == transitionToMode(e, mode, d, now)

getRuntime(e, now) == (now - e.engineStartTime) \div 1000

\* update() interrupted after its first k steps: the counters, the state
\* machine, then the eleven simulate stages in their order.  The thirteenth
\* step is followed only by the loop counter, free RAM and error bytes.
updatePartial(e, d, now, k) ==
    LET e0 == [e EXCEPT !.lastUpdateTime = now, !.loopCounter = (@ + 1)]
        e1 == IF e0.loopCounter % 20 = 0
              THEN [e0 EXCEPT !.secondCounter = U16(@ + 1),
                              !.status.secl = U16(e0.secondCounter + 1) % 256]
              ELSE e0
        e2 == updateStateMachine(e1, d, now)
        e3 == simulateRPM(e2, d)
        e4 == simulateThermal(e3)
        e5 == simulateThrottle(e4, d)
        e6 == simulateMAP(e5, d)
        e7 == simulateFuel(e6)
        e8 == simulateIgnition(e7)
        e9 == simulateAFR(e8, d)
        e10 == simulateCorrections(e9, d)
        e11 == simulateSensors(e10)
        e12 == simulateVoltage(e11, d)
        e13 == simulateCANData(e12)
    IN CASE k = 1 -> e1 [] k = 2 -> e2 [] k = 3 -> e3 [] k = 4 -> e4
         [] k = 5 -> e5 [] k = 6 -> e6 [] k = 7 -> e7 [] k = 8 -> e8
         [] k = 9 -> e9 [] k = 10 -> e10 [] k = 11 -> e11
         [] k = 12 -> e12 [] k = 13 -> e13

(***************************************************************************)
(* WebInterface: the HTTP monitor's handlers.                              *)
(***************************************************************************)
\* A byte of tenths printed as a decimal number: units and first decimal.
Tenths(x) == <<x \div 10, x % 10>>

\* The ten members of the realtime JSON document, in the order written.
getRealtimeJSON(st) ==
    <<getRPM(st), getCoolantTemp(st), getIntakeTemp(st), getMAP(st),
      st.tps, Tenths(st.afrtarget), st.advance,
      Tenths(getPulseWidth(st)), Tenths(st.batteryv), st.ve>>

\* POST /api/setmode with the posted parameters params: the empty sequence
\* when the request has no mode parameter, else the value of the parameter.
handleSetMode(e, params, d, now) ==
    IF params # <<>>
    THEN LET modeStr == params[1]
             newMode ==
                 IF modeStr = "idle" THEN "IDLE"
                 ELSE IF modeStr = "light_load" THEN "LIGHT_LOAD"
                 ELSE IF modeStr = "acceleration" THEN "ACCELERATION"
                 ELSE IF modeStr = "high_rpm" THEN "HIGH_RPM"
                 ELSE IF modeStr = "wot" THEN "WOT"
                 ELSE "IDLE"
         IN [sim |-> setMode(e, newMode, d, now), code |-> 200]
    ELSE [sim |-> e, code |-> 400]

(***************************************************************************)
(* SpeeduinoProtocol: what each handler hands to the transport.            *)
(***************************************************************************)
sendResponse(data, length) == SubSeq(data, 1, length)

\* A sender that writes the terminating NUL as well.
sendStringWithTerminator(str) == Append(str, 0)

\* sendString writes strlen(str) bytes: everything before the first NUL.
sendString(str) == str

\* A handler that sends the 75 bytes before the reserved tail only.
handleRealtimeDataShort(st) == sendResponse(StatusBytes(st), 75)

handleRealtimeData(st) == sendResponse(StatusBytes(st), StatusSize)

\* A status reply that reports the two pages the page-size reply declares.
handleStatusRequestTwoPages == sendResponse(<<0, 1, 2, 0>>, 4)

handleStatusRequest == sendResponse(<<0, 1, 1, 0>>, 4)

handleVersionRequest ==
    sendString(<<115, 112, 101, 101, 100, 117, 105, 110, 111, 32,
                 50, 48, 50, 51, 49, 48, 45, 115, 105, 109, 32>>
               \o FIRMWARE_VERSION \o <<10>>)

\* A handler that sends the signature's characters without the padding.
handleSignatureRequestUnpadded ==
    sendResponse(SPEEDUINO_SIGNATURE, Len(SPEEDUINO_SIGNATURE))

handleSignatureRequest ==
    LET len == Min(Len(SPEEDUINO_SIGNATURE), 20)
        signature == [i \in 1..20 |->
                        IF i <= len THEN SPEEDUINO_SIGNATURE[i] ELSE 0]
    IN sendResponse(signature, 20)

handlePageSizesRequest == sendResponse(<<2, 32, 0, 0, 1, 0, 0>>, 7)

\* A handler that echoes the unrecognised byte instead of the error byte.
handleUnknownCommandEcho(cmd) == sendResponse(<<cmd>>, 1)

handleUnknownCommand(cmd) == sendResponse(<<255>>, 1)

\* The switch of processCommands: the bytes sent and whether the command
\* is counted as an error.
dispatch(command, st) ==
    CASE command = 65 -> [sent |-> handleRealtimeData(st), error |-> FALSE]
      [] command = 81 -> [sent |-> handleStatusRequest, error |-> FALSE]
      [] command \in {86, 118} ->
             [sent |-> handleVersionRequest, error |-> FALSE]
      [] command = 83 -> [sent |-> handleSignatureRequest, error |-> FALSE]
      [] command = 110 -> [sent |-> handlePageSizesRequest, error |-> FALSE]
      [] OTHER -> [sent |-> handleUnknownCommand(command), error |-> TRUE]

(***************************************************************************)
(* The transport (ISerialInterface as the test suite's MockSerial          *)
(* implements it): a buffer of queued input with a read position, and the  *)
(* accumulated output.                                                     *)
(***************************************************************************)
available(buf, pos) == Len(buf) - pos

read(buf, pos) == IF pos < Len(buf) THEN buf[pos + 1] ELSE -1

write(out, buffer) ==
    out \o SubSeq(buffer, 1, Min(Len(buffer), OutputBufferSize - Len(out)))

\* A handler that counts a command only when its byte is recognised.
processCommandsCountKnown(count, errors, buf, pos, st) ==
    LET idle == [ret |-> "false", commandCount |-> count,
                 errorCount |-> errors, inputPos |-> pos,
                 cmdByte |-> -1, sent |-> <<>>]
        byte == read(buf, pos)
        r == dispatch(byte, st)
    IN IF available(buf, pos) <= 0 THEN idle
       ELSE IF byte < 0 THEN idle
       ELSE [ret |-> "true",
             commandCount |-> IF r.error THEN count ELSE count + 1,
             errorCount |-> IF r.error THEN errors + 1 ELSE errors,
             inputPos |-> pos + 1, cmdByte |-> byte, sent |-> r.sent]

\* A handler that answers an empty input with the error byte.
processCommandsNakIdle(count, errors, buf, pos, st) ==
    LET byte == read(buf, pos)
        r == dispatch(byte, st)
    IN IF available(buf, pos) <= 0
       THEN [ret |-> "false", commandCount |-> count,
             errorCount |-> errors + 1, inputPos |-> pos,
             cmdByte |-> -1, sent |-> handleUnknownCommand(0)]
       ELSE [ret |-> "true", commandCount |-> count + 1,
             errorCount |-> IF r.error THEN errors + 1 ELSE errors,
             inputPos |-> pos + 1, cmdByte |-> byte, sent |-> r.sent]

\* A handler that drains the input and answers the newest byte only.
processCommandsNewest(count, errors, buf, pos, st) ==
    LET idle == [ret |-> "false", commandCount |-> count,
                 errorCount |-> errors, inputPos |-> pos,
                 cmdByte |-> -1, sent |-> <<>>]
        byte == buf[Len(buf)]
        r == dispatch(byte, st)
    IN IF available(buf, pos) <= 0 THEN idle
       ELSE [ret |-> "true", commandCount |-> count + 1,
             errorCount |-> IF r.error THEN errors + 1 ELSE errors,
             inputPos |-> Len(buf), cmdByte |-> byte, sent |-> r.sent]

\* A handler that starts the error count afresh after a recognised command.
processCommandsClearErrors(count, errors, buf, pos, st) ==
    LET idle == [ret |-> "false", commandCount |-> count,
                 errorCount |-> errors, inputPos |-> pos,
                 cmdByte |-> -1, sent |-> <<>>]
        byte == read(buf, pos)
        r == dispatch(byte, st)
    IN IF available(buf, pos) <= 0 THEN idle
       ELSE IF byte < 0 THEN idle
       ELSE [ret |-> "true", commandCount |-> count + 1,
             errorCount |-> IF r.error THEN errors + 1 ELSE 0,
             inputPos |-> pos + 1, cmdByte |-> byte, sent |-> r.sent]

\* processCommands() on the counters (count, errors), the transport's input
\* (buf, pos) and the engine's status st: the return value, the counters and
\* the read position afterwards, the byte read and the bytes sent.
processCommands(count, errors, buf, pos, st) ==
    LET idle == [ret |-> "false", commandCount |-> count,
                 errorCount |-> errors, inputPos |-> pos,
                 cmdByte |-> -1, sent |-> <<>>]
        byte == read(buf, pos)
        r == dispatch(byte, st)
    IN IF available(buf, pos) <= 0 THEN idle
       ELSE IF byte < 0 THEN idle
       ELSE [ret |-> "true", commandCount |-> count + 1,
             errorCount |-> IF r.error THEN errors + 1 ELSE errors,
             inputPos |-> pos + 1, cmdByte |-> byte, sent |-> r.sent]

(***************************************************************************)
(* State.                                                                  *)
(*   sim           the EngineSimulator object                              *)
(*   now           the time provider's millis()                            *)
(*   drawn         values the last call drew from the random provider      *)
(*   op, ret       the last call made by the driver and what it returned   *)
(*   arg           the integer argument of the last call, or -1            *)
(*   modeSeq       getMode() as read after initialize() and after each     *)
(*                 accepted update(): repeats dropped, first three kept    *)
(*   commandCount, errorCount     SpeeduinoProtocol's counters             *)
(*   inputBuffer, inputPos, outputBuffer    the transport                  *)
(*   cmdByte       the byte the last call read from the transport, or -1   *)
(*   written       the bytes the last call handed to the transport         *)
(***************************************************************************)
VARIABLES sim, now, drawn, op, ret, arg, modeSeq,
          commandCount, errorCount, inputBuffer, inputPos, outputBuffer,
          cmdByte, written, seeds, tick

engineVars == <<sim, drawn, modeSeq>>
protocolVars == <<commandCount, errorCount>>
transportVars == <<inputBuffer, inputPos, outputBuffer>>
vars == <<sim, now, drawn, op, ret, arg, modeSeq,
          commandCount, errorCount, inputBuffer, inputPos, outputBuffer,
          cmdByte, written, seeds, tick>>

(***************************************************************************)
(* Bounds of the model.                                                    *)
(***************************************************************************)
\* The clock advances in steps of ClockSteps up to MaxClock * 25 ms.
MaxClock == 3
\* Bytes a client queues on the transport.
MaxInput == 2
\* Accepted ticks of a run of the bare driver loop.
MaxNaturalTicks == 45
\* Accepted ticks of a run that follows one forced mode.
MaxRunTicks == 105
\* Accepted ticks of a run at idle with the RPM fluctuation at its extremes.
MaxIdleTicks == 8
\* Accepted ticks of a warm-up run: past WARMUP_TIME_MS.
MaxWarmupTicks == 610
\* Accepted ticks of a run from a forced WOT through HIGH_RPM into
\* DECELERATION and down to its target.
MaxDecelTicks == 215
\* Accepted ticks of a run long enough for the seconds byte to wrap
\* (256 seconds of 20 ticks).
MaxCountTicks == 5130
\* Ticks the driver loop runs while the HTTP monitor reads.
MaxMonitorTicks == 3

ClockSteps == {25, UPDATE_INTERVAL_MS}

\* A draw record with every site at position u and every roll at p.
Uniform(u, p) ==
    [sm |-> p, t1 |-> u, t2 |-> u, jitter |-> u, tps |-> u, map |-> u,
     o2b |-> u, o2 |-> u, idle |-> u, volt |-> u, errRoll |-> p,
     errCode |-> u]

\* Rolls on either side of every threshold the code compares a roll with.
Rolls == {0, 1, 2, 29, 30, 34, 35, 39, 40, 69, 70, 99}

Draws == {Uniform(u, p) : u \in 0..2, p \in Rolls}

\* Spec runs too briefly for a state-machine roll: only the fault roll of
\* update() (below 2 or not) can differ.
TickDraws == {Uniform(u, p) : u \in {0, 2}, p \in {1, 2}}

\* setMode() draws the two jitter values of the transition only.
ModeDraws == {Uniform(u, 0) : u \in {0, 2}}

\* The enumerator's value: the argument a caller of setMode() passes.
ModeIndex(mode) ==
    CASE mode = "STARTUP" -> 0
      [] mode = "WARMUP_IDLE" -> 1
      [] mode = "IDLE" -> 2
      [] mode = "LIGHT_LOAD" -> 3
      [] mode = "ACCELERATION" -> 4
      [] mode = "HIGH_RPM" -> 5
      [] mode = "DECELERATION" -> 6
      [] mode = "WOT" -> 7

Observe(seq, mode) ==
    IF Len(seq) < 3 /\ (seq = <<>> \/ seq[Len(seq)] # mode)
    THEN Append(seq, mode) ELSE seq

\* IRandomProvider::seed(): the provider records the seed it is given; the
\* last one governs the sequence it then produces.
seed(history, s) == Append(history, s)

\* No update() is in progress.
NoTick == [stage |-> 0, d |-> Uniform(1, 0), before |-> Constructed]

\* setup() at clock reading t over a provider that has been seeded as in
\* history: the engine is constructed (which seeds the provider with the
\* clock reading) and initialized, the protocol handler is constructed;
\* queued holds what a client has sent by then.
SetupAt(queued, history, t) ==
    /\ sim = initialize(Constructed, t)
    /\ now = t
    /\ drawn = 0
    /\ op = "setup"
    /\ ret = "void"
    /\ arg = -1
    /\ modeSeq = <<"STARTUP">>
    /\ commandCount = 0
    /\ errorCount = 0
    /\ inputBuffer = queued
    /\ inputPos = 0
    /\ outputBuffer = <<>>
    /\ cmdByte = -1
    /\ written = <<>>
    /\ seeds = seed(history, t)
    /\ tick = NoTick

\* setup() of the firmware: nothing seeds the provider before the engine is
\* constructed, at clock reading 0.
Setup(queued) == SetupAt(queued, <<>>, 0)

Init == Setup(<<>>)

NoTransportIO == cmdByte' = -1 /\ written' = <<>>

(***************************************************************************)
(* The driver's calls.                                                     *)
(***************************************************************************)
Initialize ==
    /\ sim' = initialize(sim, now)
    /\ drawn' = 0
    /\ modeSeq' = <<"STARTUP">>
    /\ op' = "initialize"
    /\ arg' = -1
    /\ UNCHANGED <<seeds, tick>>
    /\ ret' = "void"
    /\ NoTransportIO
    /\ UNCHANGED <<now, protocolVars, transportVars>>

Update(d) ==
    /\ IF updateDue(sim, now)
       THEN LET e == update(sim, d, now)
            IN /\ sim' = [e EXCEPT !.rngDraws = 0]
               /\ drawn' = e.rngDraws
               /\ modeSeq' = Observe(modeSeq, e.currentMode)
               /\ ret' = "true"
       ELSE /\ sim' = sim
            /\ drawn' = 0
            /\ modeSeq' = modeSeq
            /\ ret' = "false"
    /\ op' = "update"
    /\ arg' = -1
    /\ UNCHANGED <<seeds, tick>>
    /\ NoTransportIO
    /\ UNCHANGED <<now, protocolVars, transportVars>>

SetMode(mode, d) ==
    /\ LET e == setMode(sim, mode, d, now)
       IN /\ sim' = [e EXCEPT !.rngDraws = 0]
          /\ drawn' = e.rngDraws
    /\ op' = "setMode"
    /\ arg' = ModeIndex(mode)
    /\ UNCHANGED <<seeds, tick>>
    /\ ret' = "void"
    /\ NoTransportIO
    /\ UNCHANGED <<now, modeSeq, protocolVars, transportVars>>

\* Time passes between two calls of the driver.
AdvanceTime(dt) ==
    /\ now + dt <= MaxClock * 25
    /\ now' = (now + dt)
    /\ op' = "delay"
    /\ arg' = -1
    /\ UNCHANGED <<seeds, tick>>
    /\ ret' = "void"
    /\ NoTransportIO
    /\ UNCHANGED <<engineVars, protocolVars, transportVars>>

Begin ==
    /\ commandCount' = 0
    /\ errorCount' = 0
    /\ op' = "begin"
    /\ arg' = -1
    /\ UNCHANGED <<seeds, tick>>
    /\ ret' = "void"
    /\ NoTransportIO
    /\ UNCHANGED <<now, engineVars, transportVars>>

\* A client queues one byte (MockSerial::addInput).
AddInput(b) ==
    /\ Len(inputBuffer) < Min(MaxInput, InputBufferSize)
    /\ inputBuffer' = Append(inputBuffer, b)
    /\ op' = "addInput"
    /\ arg' = -1
    /\ UNCHANGED <<seeds, tick>>
    /\ ret' = "void"
    /\ NoTransportIO
    /\ UNCHANGED <<now, engineVars, protocolVars, inputPos, outputBuffer>>

ProcessCommands ==
    /\ LET r == processCommands(commandCount, errorCount,
                                inputBuffer, inputPos, sim.status)
       IN /\ ret' = r.ret
          /\ commandCount' = r.commandCount
          /\ errorCount' = r.errorCount
          /\ inputPos' = r.inputPos
          /\ cmdByte' = r.cmdByte
          /\ written' = r.sent
          /\ outputBuffer' = write(outputBuffer, r.sent)
    /\ inputBuffer' = inputBuffer
    /\ op' = "processCommands"
    /\ arg' = -1
    /\ UNCHANGED <<seeds, tick>>
    /\ UNCHANGED <<now, engineVars>>

(***************************************************************************)
(* Spec: the engine under every call the driver and the mode override can  *)
(* make, at any time.                                                      *)
(***************************************************************************)
Next ==
    \/ Initialize
    \/ \E d \in TickDraws : Update(d)
    \/ \E mode \in EngineMode, d \in ModeDraws : SetMode(mode, d)
    \/ \E dt \in ClockSteps : AdvanceTime(dt)

Spec == Init /\ [][Next]_vars

(***************************************************************************)
(* ProtocolSpec: the polling loop with a client that queues command bytes  *)
(* at any time, while the engine ticks and its mode is overridden.         *)
(***************************************************************************)
\* A command answered from the engine ('A'), one answered without it ('Q')
\* and a byte that is no command ('Z'); ByteSpec covers every byte value.
SampleBytes == {65, 81, 90}

LoopDraws == {Uniform(2, 1)}

ProtocolNext ==
    \/ Begin
    \/ \E b \in SampleBytes : AddInput(b)
    \/ ProcessCommands
    \/ \E d \in LoopDraws : Update(d)
    \/ \E mode \in {"IDLE", "WOT"} : SetMode(mode, Uniform(0, 0))
    \/ AdvanceTime(UPDATE_INTERVAL_MS)

ProtocolSpec == Init /\ [][ProtocolNext]_vars

(***************************************************************************)
(* ByteSpec: the handler's answer to every byte value a client can have    *)
(* queued when the loop starts.                                            *)
(***************************************************************************)
Bytes == 0..255

ByteInit == \E b \in Bytes : Setup(<<b>>)

ByteNext ==
    \/ Begin
    \/ ProcessCommands

ByteSpec == ByteInit /\ [][ByteNext]_vars

(***************************************************************************)
(* CommandSpec: one queued command byte, answered at any moment while      *)
(* the engine ticks, is re-initialized and has its mode overridden.        *)
(***************************************************************************)
\* Every byte the switch of processCommands names, and three it does not:
\* the lowest, an ASCII letter and the highest.
CommandBytes == {65, 81, 86, 118, 83, 110, 0, 90, 255}

CommandInit == \E b \in CommandBytes : Setup(<<b>>)

CommandNext ==
    \/ ProcessCommands
    \/ Initialize
    \/ \E d \in LoopDraws : Update(d)
    \/ \E mode \in {"IDLE", "WOT"} : SetMode(mode, Uniform(0, 0))
    \/ AdvanceTime(UPDATE_INTERVAL_MS)

CommandSpec == CommandInit /\ [][CommandNext]_vars

(***************************************************************************)
(* AccessorSpec: one call of a setter of EngineStatus, with any argument   *)
(* of its domain, on the record as initialize() leaves it.                 *)
(***************************************************************************)
Words == 0 .. 65535
SignedWords == -32768 .. 32767
Celsius == -40 .. 215

\* The call name(x) has left the record st.
Stored(name, x, st) ==
    /\ sim' = [sim EXCEPT !.status = st]
    /\ op' = name
    /\ arg' = x
    /\ UNCHANGED <<seeds, tick>>
    /\ ret' = "void"
    /\ NoTransportIO
    /\ UNCHANGED <<now, drawn, modeSeq, protocolVars, transportVars>>

SetRPM(x) == Stored("setRPM", x, setRPM(sim.status, x))

SetMAP(x) == Stored("setMAP", x, setMAP(sim.status, x))

SetPulseWidth(x) == Stored("setPulseWidth", x, setPulseWidth(sim.status, x))

SetRPMDot(x) == Stored("setRPMDot", x, setRPMDot(sim.status, x))

SetCoolantTemp(x) ==
    Stored("setCoolantTemp", x, setCoolantTemp(sim.status, x))

SetIntakeTemp(x) ==
    Stored("setIntakeTemp", x, setIntakeTemp(sim.status, x))

AccessorNext ==
    /\ op = "setup"
    /\ \/ \E x \in Words : SetRPM(x)
       \/ \E x \in Words : SetMAP(x)
       \/ \E x \in Words : SetPulseWidth(x)
       \/ \E x \in SignedWords : SetRPMDot(x)
       \/ \E x \in Celsius : SetCoolantTemp(x)
       \/ \E x \in Celsius : SetIntakeTemp(x)

AccessorSpec == Init /\ [][AccessorNext]_vars

(***************************************************************************)
(* NaturalSpec: the bare driver loop after setup(): update() every         *)
(* UPDATE_INTERVAL_MS, nothing else.                                       *)
(***************************************************************************)
NaturalTick(d) ==
    /\ sim.loopCounter < MaxNaturalTicks
    /\ updateDue(sim, now)
    /\ Update(d)

NaturalDelay ==
    /\ ~updateDue(sim, now)
    /\ now' = now + UPDATE_INTERVAL_MS
    /\ op' = "delay"
    /\ arg' = -1
    /\ UNCHANGED <<seeds, tick>>
    /\ ret' = "void"
    /\ NoTransportIO
    /\ UNCHANGED <<engineVars, protocolVars, transportVars>>

NaturalNext ==
    \/ \E d \in Draws : NaturalTick(d)
    \/ NaturalDelay

NaturalSpec == Init /\ [][NaturalNext]_vars

(***************************************************************************)
(* RunSpec: after setup() the mode is forced once, to any mode, and the    *)
(* driver loop then ticks every UPDATE_INTERVAL_MS.  MaxRunTicks is long   *)
(* enough for every branch of updateStateMachine to be taken.             *)
(***************************************************************************)
\* Rolls that take each branch of the state machine's percentage tests
\* (below 30, 30..34, 40..69, 70 and above), with the noise sites at their
\* lowest or their highest value and the idle RPM fluctuation at its middle
\* value; IdleSpec draws that one at its extremes.
RunDraw(u, p) == [Uniform(u, p) EXCEPT !.jitter = 1]

RunDraws == {RunDraw(0, 1), RunDraw(2, 32), RunDraw(0, 50), RunDraw(2, 99)}

RunStart(mode, d) ==
    /\ op = "setup"
    /\ SetMode(mode, d)

RunTick(d) ==
    /\ op # "setup"
    /\ sim.loopCounter < MaxRunTicks
    /\ updateDue(sim, now)
    /\ Update(d)

RunDelay ==
    /\ op # "setup"
    /\ NaturalDelay

RunNext ==
    \/ \E mode \in EngineMode, d \in ModeDraws : RunStart(mode, d)
    \/ \E d \in RunDraws : RunTick(d)
    \/ RunDelay

RunSpec == Init /\ [][RunNext]_vars

(***************************************************************************)
(* SettleSpec: the settle-and-compare scenario.  After setup() the mode is *)
(* forced to IDLE and SettleTicks updates are accepted; a client then      *)
(* reads the record with 'A'; the mode is forced to WOT and SettleTicks    *)
(* more updates are accepted.  Every noise site takes its lowest or its    *)
(* highest value on each tick, the idle RPM fluctuation its middle value;  *)
(* IdleSpec draws that one at its extremes.                                *)
(***************************************************************************)
SettleTicks == 20

SettleDraws == {RunDraw(0, 50), RunDraw(2, 50)}

SettleIdle(d) ==
    /\ op = "setup"
    /\ SetMode("IDLE", d)

SettleTick(d) ==
    /\ op \notin {"setup", "processCommands"}
    /\ sim.loopCounter < (inputPos + 1) * SettleTicks
    /\ updateDue(sim, now)
    /\ Update(d)

SettleDelay ==
    /\ op \notin {"setup", "processCommands"}
    /\ sim.loopCounter < (inputPos + 1) * SettleTicks
    /\ NaturalDelay

SettleRead ==
    /\ op = "update"
    /\ inputPos = 0
    /\ sim.loopCounter = SettleTicks
    /\ ProcessCommands

SettleWot(d) ==
    /\ op = "processCommands"
    /\ SetMode("WOT", d)

SettleNext ==
    \/ \E d \in ModeDraws : SettleIdle(d)
    \/ \E d \in SettleDraws : SettleTick(d)
    \/ SettleDelay
    \/ SettleRead
    \/ \E d \in ModeDraws : SettleWot(d)

SettleSpec == Setup(<<65>>) /\ [][SettleNext]_vars

(***************************************************************************)
(* IdleSpec: after setup() the mode is forced to one of the two idle modes *)
(* and the driver loop ticks every UPDATE_INTERVAL_MS, the idle RPM        *)
(* fluctuation and every noise site at their lowest or highest value.      *)
(***************************************************************************)
IdleDraws == {Uniform(0, 50), Uniform(2, 50)}

IdleStart(mode, d) ==
    /\ op = "setup"
    /\ SetMode(mode, d)

IdleTick(d) ==
    /\ op # "setup"
    /\ sim.loopCounter < MaxIdleTicks
    /\ updateDue(sim, now)
    /\ Update(d)

IdleDelay ==
    /\ op # "setup"
    /\ sim.loopCounter < MaxIdleTicks
    /\ NaturalDelay

IdleNext ==
    \/ \E mode \in {"IDLE", "WARMUP_IDLE"}, d \in ModeDraws : IdleStart(mode, d)
    \/ \E d \in IdleDraws : IdleTick(d)
    \/ IdleDelay

IdleSpec == Init /\ [][IdleNext]_vars

(***************************************************************************)
(* WarmupSpec: after setup() the driver loop only ticks, every             *)
(* UPDATE_INTERVAL_MS, until past WARMUP_TIME_MS.                          *)
(***************************************************************************)
WarmupTick(d) ==
    /\ sim.loopCounter < MaxWarmupTicks
    /\ updateDue(sim, now)
    /\ Update(d)

WarmupDelay ==
    /\ sim.loopCounter < MaxWarmupTicks
    /\ NaturalDelay

WarmupNext ==
    \/ \E d \in IdleDraws : WarmupTick(d)
    \/ WarmupDelay

WarmupSpec == Init /\ [][WarmupNext]_vars

(***************************************************************************)
(* SeedSpec: a caller seeds the provider, then builds and initializes the  *)
(* engine over it at some clock reading, and the driver loop ticks.        *)
(***************************************************************************)
\* Seeds a caller fixes; 12345 is the one of the test fixture.
CallerSeeds == {12345, 54321}

\* Clock readings at which the engine is constructed.
BootTimes == {0, 25}

SeedInit == \E s \in CallerSeeds, t \in BootTimes : SetupAt(<<>>, seed(<<>>, s), t)

SeedSpec == SeedInit /\ [][WarmupNext]_vars

(***************************************************************************)
(* MonitorSpec: the driver loop runs update() step by step while the       *)
(* asynchronous web server, in its own task, serves realtime reads at any  *)
(* moment, update() taking no lock and the handler none either.            *)
(***************************************************************************)
UpdateSteps == 13

TickBegin(d) ==
    /\ tick.stage = 0
    /\ sim.loopCounter < MaxMonitorTicks
    /\ updateDue(sim, now)
    /\ tick' = [stage |-> 1, d |-> d, before |-> sim]
    /\ sim' = updatePartial(sim, d, now, 1)
    /\ op' = "update"
    /\ ret' = "running"
    /\ arg' = -1
    /\ NoTransportIO
    /\ UNCHANGED <<now, drawn, modeSeq, protocolVars, transportVars, seeds>>

TickStep ==
    /\ tick.stage \in 1 .. UpdateSteps - 1
    /\ tick' = [tick EXCEPT !.stage = @ + 1]
    /\ sim' = updatePartial(tick.before, tick.d, now, tick.stage + 1)
    /\ op' = "update"
    /\ ret' = "running"
    /\ arg' = -1
    /\ NoTransportIO
    /\ UNCHANGED <<now, drawn, modeSeq, protocolVars, transportVars, seeds>>

TickEnd ==
    /\ tick.stage = UpdateSteps
    /\ LET e == update(tick.before, tick.d, now)
       IN /\ sim' = [e EXCEPT !.rngDraws = 0]
          /\ drawn' = e.rngDraws
          /\ modeSeq' = Observe(modeSeq, e.currentMode)
    /\ tick' = NoTick
    /\ op' = "update"
    /\ ret' = "true"
    /\ arg' = -1
    /\ NoTransportIO
    /\ UNCHANGED <<now, protocolVars, transportVars, seeds>>

\* GET /api/realtime: the handler reads the engine's record where it lies.
HandleRealtimeData ==
    /\ op # "handleRealtimeData"
    /\ written' = getRealtimeJSON(sim.status)
    /\ cmdByte' = -1
    /\ op' = "handleRealtimeData"
    /\ ret' = "void"
    /\ arg' = -1
    /\ UNCHANGED <<now, engineVars, protocolVars, transportVars, seeds, tick>>

MonitorDelay ==
    /\ tick.stage = 0
    /\ sim.loopCounter < MaxMonitorTicks
    /\ NaturalDelay

MonitorNext ==
    \/ \E d \in IdleDraws : TickBegin(d)
    \/ TickStep
    \/ TickEnd
    \/ HandleRealtimeData
    \/ MonitorDelay

MonitorSpec == Init /\ [][MonitorNext]_vars

(***************************************************************************)
(* HttpSpec: the driver loop ticks and a client posts a mode override to   *)
(* the HTTP monitor before any tick that is due.                           *)
(***************************************************************************)
\* Requests a client posts: none or one mode parameter.  arg records which.
Requests ==
    << <<>>, <<"idle">>, <<"light_load">>, <<"acceleration">>,
       <<"high_rpm">>, <<"wot">>, <<"startup">>, <<"deceleration">>,
       <<"IDLE">>, <<"">> >>

HandleSetMode(i, d) ==
    /\ op = "delay"
    /\ LET r == handleSetMode(sim, Requests[i], d, now)
       IN /\ sim' = [r.sim EXCEPT !.rngDraws = 0]
          /\ drawn' = r.sim.rngDraws
          /\ ret' = IF r.code = 200 THEN "200" ELSE "400"
    /\ op' = "handleSetMode"
    /\ arg' = i
    /\ NoTransportIO
    /\ UNCHANGED <<now, modeSeq, protocolVars, transportVars, seeds, tick>>

HttpTick(d) ==
    /\ sim.loopCounter < MaxMonitorTicks
    /\ updateDue(sim, now)
    /\ Update(d)

HttpNext ==
    \/ \E i \in 1 .. Len(Requests), d \in ModeDraws : HandleSetMode(i, d)
    \/ \E d \in IdleDraws : HttpTick(d)
    \/ MonitorDelay

HttpSpec == Init /\ [][HttpNext]_vars

(***************************************************************************)
(* DecelSpec: after setup() the mode is forced to WOT and the driver loop  *)
(* ticks every UPDATE_INTERVAL_MS: through HIGH_RPM into DECELERATION and  *)
(* on until the RPM has come down.                                         *)
(***************************************************************************)
DecelTick(d) ==
    /\ op # "setup"
    /\ sim.loopCounter < MaxDecelTicks
    /\ updateDue(sim, now)
    /\ Update(d)

DecelNext ==
    \/ \E d \in ModeDraws : RunStart("WOT", d)
    \/ \E d \in SettleDraws : DecelTick(d)
    \/ RunDelay

DecelSpec == Init /\ [][DecelNext]_vars

(***************************************************************************)
(* CountSpec: after setup() the driver calls update() as soon as it is due *)
(* and possibly again before the next interval has elapsed.                *)
(***************************************************************************)
CountTick(d) ==
    /\ sim.loopCounter < MaxCountTicks
    /\ ~(op = "update" /\ ret = "false")
    /\ Update(d)

CountDelay ==
    /\ sim.loopCounter < MaxCountTicks
    /\ NaturalDelay

CountNext ==
    \/ \E d \in LoopDraws : CountTick(d)
    \/ CountDelay

CountSpec == Init /\ [][CountNext]_vars

(***************************************************************************)
(* FaultSpec: CommandSpec over a transport that fails a read: its queue    *)
(* ends with a slot, written -1, that available() counts and for which     *)
(* read() yields -1 (ISerialInterface::read, "or -1 if none available").   *)
(***************************************************************************)
FaultInputs == {<<-1>>, <<65, -1>>, <<90, -1>>}

FaultInit == \E queued \in FaultInputs : Setup(queued)

FaultSpec == FaultInit /\ [][CommandNext]_vars

(***************************************************************************)
(* Properties of the engine.                                               *)
(***************************************************************************)

\* C1: after every accepted update(), whatever calls and draws came before,
\* the RPM published in bytes 15-16 of the record lies in RPM_MIN..RPM_MAX.
C1_RpmWithinLimits ==
    (op = "update" /\ ret = "true") =>
        getRPM(sim.status) \in RPM_MIN .. RPM_MAX

\* C2: from initialize() on a freshly constructed engine, with accepted
\* updates only, the modes observed are Startup, WarmupIdle, Idle, and Idle
\* has been reached by the time MaxNaturalTicks updates have been accepted,
\* whatever the draws.
C2_StartupReachesIdle ==
    (sim.loopCounter = MaxNaturalTicks) =>
        modeSeq = <<"STARTUP", "WARMUP_IDLE", "IDLE">>

\* C3: an update() called less than UPDATE_INTERVAL_MS after the last
\* accepted one returns false and leaves the whole engine (simulation
\* variables, record, counters, timestamps) and the random draw position
\* as they were.
C3_EarlyUpdateChangesNothing ==
    [][(op' = "update" /\ (now - sim.lastUpdateTime) < UPDATE_INTERVAL_MS)
          => /\ ret' = "false"
             /\ sim' = sim
             /\ drawn' = 0
             /\ modeSeq' = modeSeq]_vars

\* An update() rejected 25 ms after an accepted one.
C3_Witness ==
    /\ op = "update"
    /\ ret = "false"
    /\ sim.loopCounter >= 1
    /\ now - sim.lastUpdateTime = 25

(***************************************************************************)
(* Properties of the protocol handler.                                     *)
(***************************************************************************)

\* The byte at offset i (0-based) of the record in the documented layout:
\* 16-bit fields low byte first, temperatures stored with offset 40.
WireByte(st, i) ==
    CASE i = 0 -> st.response
      [] i = 1 -> st.secl
      [] i = 2 -> st.status1
      [] i = 3 -> st.engine
      [] i = 4 -> st.dwell
      [] i = 5 -> getMAP(st) % 256
      [] i = 6 -> getMAP(st) \div 256
      [] i = 7 -> (getIntakeTemp(st) + 40) % 256
      [] i = 8 -> (getCoolantTemp(st) + 40) % 256
      [] i = 9 -> st.batcorrection
      [] i = 10 -> st.batteryv
      [] i = 11 -> st.o2
      [] i = 12 -> st.egocorrection
      [] i = 13 -> st.iatcorrection
      [] i = 14 -> st.wue
      [] i = 15 -> getRPM(st) % 256
      [] i = 16 -> getRPM(st) \div 256
      [] i = 17 -> st.taeamount
      [] i = 18 -> st.gammae
      [] i = 19 -> st.ve
      [] i = 20 -> st.afrtarget
      [] i = 21 -> getPulseWidth(st) % 256
      [] i = 22 -> getPulseWidth(st) \div 256
      [] i = 23 -> st.tpsdot
      [] i = 24 -> st.advance
      [] i = 25 -> st.tps
      [] i = 26 -> st.loopslo
      [] i = 27 -> st.loopshi
      [] i = 28 -> st.freeramlo
      [] i = 29 -> st.freeramhi
      [] i = 30 -> st.boosttarget
      [] i = 31 -> st.boostduty
      [] i = 32 -> st.spark
      [] i = 33 -> st.rpmdotlo
      [] i = 34 -> st.rpmdothi
      [] i = 35 -> st.ethanolpct
      [] i = 36 -> st.flexcorrection
      [] i = 37 -> st.flexigncorrection
      [] i = 38 -> st.idleload
      [] i = 39 -> st.testoutputs
      [] i = 40 -> st.o2_2
      [] i = 41 -> st.baro
      [] i \in 42 .. 73 -> st.canin[i - 41]
      [] i = 74 -> st.tpsadc
      [] i = 75 -> st.errors
      [] i = 76 -> st.unused1
      [] i = 77 -> st.unused2
      [] i = 78 -> st.unused3

RecognisedBytes == {65, 81, 86, 118, 83, 110}

\* C4: a processCommands() that reads 'A' writes exactly 79 bytes, byte for
\* byte the engine's current record, the first of them 'A' (0x41), whatever
\* updates and setMode() calls have happened since initialize().
C4_RealtimeDataIsTheRecord ==
    (op = "processCommands" /\ cmdByte = 65) =>
        /\ Len(written) = 79
        /\ written[1] = 65
        /\ \A i \in 0 .. 78 : written[i + 1] = WireByte(sim.status, i)
        /\ Len(outputBuffer) >= 79
        /\ SubSeq(outputBuffer, Len(outputBuffer) - 78, Len(outputBuffer))
               = written

\* The record is read after an accepted update and a forced mode change.
C4_Witness ==
    /\ op = "processCommands"
    /\ cmdByte = 65
    /\ sim.loopCounter >= 1
    /\ sim.currentMode = "WOT"
    /\ getRPM(sim.status) > 0

\* C5: a processCommands() that reads a byte outside {A, Q, V, v, S, n}
\* writes the single byte 0xFF, adds exactly 1 to the error counter and
\* returns true; one that reads any of the six recognised bytes leaves the
\* error counter unchanged.
C5_UnknownByteIsAnError ==
    [][(op' = "processCommands" /\ cmdByte' # -1)
          => IF cmdByte' \in RecognisedBytes
             THEN errorCount' = errorCount
             ELSE /\ written' = <<255>>
                  /\ outputBuffer' = Append(outputBuffer, 255)
                  /\ errorCount' = errorCount + 1
                  /\ ret' = "true"]_vars

\* A byte above the ASCII range has been answered with the error byte.
C5_Witness ==
    /\ op = "processCommands"
    /\ cmdByte = 200
    /\ errorCount = 1
    /\ written = <<255>>

\* C6: the commands-processed counter grows by exactly 1 on every
\* processCommands() that found a byte available, recognised or not, and by
\* 0 on every other processCommands().
C6_CommandCounterCountsBytesRead ==
    [][(op' = "processCommands")
          => commandCount' = commandCount
                 + (IF available(inputBuffer, inputPos) > 0 THEN 1 ELSE 0)]_vars

\* Two bytes have been counted, the second of them unrecognised, and a
\* further call on the empty input has added nothing.
C6_Witness ==
    /\ op = "processCommands"
    /\ ret = "false"
    /\ commandCount = 2
    /\ errorCount >= 1

\* C7: with no byte available, processCommands() returns false, writes
\* nothing, reads nothing and leaves both counters unchanged.
C7_NothingAvailableNothingDone ==
    [][(op' = "processCommands" /\ available(inputBuffer, inputPos) = 0)
          => /\ ret' = "false"
             /\ written' = <<>>
             /\ outputBuffer' = outputBuffer
             /\ cmdByte' = -1
             /\ inputPos' = inputPos
             /\ inputBuffer' = inputBuffer
             /\ commandCount' = commandCount
             /\ errorCount' = errorCount]_vars

\* The handler has been called with nothing queued, before any byte ever
\* arrived.
C7_Witness ==
    /\ op = "processCommands"
    /\ ret = "false"
    /\ inputBuffer = <<>>
    /\ commandCount = 0

\* C8: each processCommands() consumes at most one byte and never waits:
\* while bytes are queued it returns true, takes the oldest unread byte and
\* appends that byte's response after all earlier output; once the queue is
\* used up it returns false.  So k queued bytes give k calls that return
\* true, then one that returns false, with the responses in queue order.
C8_OneByteEachCallInOrder ==
    [][(op' = "processCommands")
          => IF available(inputBuffer, inputPos) > 0
             THEN /\ ret' = "true"
                  /\ inputPos' = inputPos + 1
                  /\ cmdByte' = inputBuffer[inputPos + 1]
                  /\ Len(written') > 0
                  /\ outputBuffer' = outputBuffer \o written'
             ELSE /\ ret' = "false"
                  /\ inputPos' = inputPos]_vars

\* Two queued bytes, 'Q' then an unknown one, have been answered in that
\* order and the call after them has found nothing.
C8_Witness ==
    /\ op = "processCommands"
    /\ ret = "false"
    /\ inputBuffer = <<81, 90>>
    /\ inputPos = 2
    /\ commandCount = 2
    /\ outputBuffer = <<0, 1, 1, 0, 255>>

\* C9: a processCommands() that reads 'n' writes exactly 7 bytes: byte 0 is
\* the page count and the rest are one 2-byte size entry per page, so the
\* number of size entries equals the page count in byte 0.
C9_PageSizesMatchPageCount ==
    (op = "processCommands" /\ cmdByte = 110) =>
        /\ Len(written) = 7
        /\ Len(written) - 1 = 2 * written[1]

\* C10: a processCommands() that reads 'Q' writes exactly the four bytes
\* 0x00, 0x01, 0x01, 0x00, whatever state the engine is in.
C10_StatusReplyIsFixed ==
    (op = "processCommands" /\ cmdByte = 81) =>
        written = <<0, 1, 1, 0>>

\* 'Q' is answered after the engine has run and been forced to another mode.
C10_Witness ==
    /\ op = "processCommands"
    /\ cmdByte = 81
    /\ sim.loopCounter >= 1
    /\ sim.currentMode # "STARTUP"

\* C11: a processCommands() that reads 'S' writes exactly 20 bytes, the 16
\* ASCII characters of "speeduino 202310" followed by 4 zero bytes,
\* whatever state the engine is in.
C11_SignatureIsPaddedToTwenty ==
    (op = "processCommands" /\ cmdByte = 83) =>
        written = <<115, 112, 101, 101, 100, 117, 105, 110, 111, 32,
                    50, 48, 50, 51, 49, 48, 0, 0, 0, 0>>

\* 'S' is answered after the engine has ticked and been forced to WOT.
C11_Witness ==
    /\ op = "processCommands"
    /\ cmdByte = 83
    /\ sim.loopCounter >= 1
    /\ sim.currentMode = "WOT"

C13_CountersResetOnlyByBegin ==
    [][IF op' = "begin"
       THEN commandCount' = 0 /\ errorCount' = 0
       ELSE commandCount' >= commandCount /\ errorCount' >= errorCount]_vars

\* begin() has been called after two bytes were counted, one of them
\* rejected.
C13_Witness ==
    /\ op = "begin"
    /\ inputPos = 2
    /\ inputBuffer = <<81, 90>>
    /\ commandCount = 0
    /\ errorCount = 0

(***************************************************************************)
(* Properties of initialize() and setMode().                               *)
(***************************************************************************)

\* Offsets of the record that initialize() assigns after zeroing it:
\* response, MAP, IAT, CLT, battery voltage, RPM, TPS and baro.
InitializedOffsets == {0, 5, 6, 7, 8, 10, 15, 16, 25, 41}

\* C14: initialize(), called in any state, leaves the cold-start baseline:
\* mode Startup, internal RPM 0, coolant and intake temperature 20 C
\* (200 tenths), throttle and its target at TPS_IDLE, tick and second
\* counters 0, and a record whose byte 0 is 'A', whose RPM is 0, whose MAP
\* is 100 and whose fields not assigned by initialize() are all 0.
C14_InitializeLeavesBaseline ==
    (op = "initialize") =>
        /\ sim.currentMode = "STARTUP"
        /\ sim.currentRPM = 0
        /\ sim.coolantTemp = 200
        /\ sim.intakeTemp = 200
        /\ sim.currentThrottle = 2
        /\ sim.targetThrottle = 2
        /\ sim.loopCounter = 0
        /\ sim.secondCounter = 0
        /\ StatusBytes(sim.status)[1] = 65
        /\ getRPM(sim.status) = 0
        /\ getMAP(sim.status) = 100
        /\ \A i \in (0 .. 78) \ InitializedOffsets :
               StatusBytes(sim.status)[i + 1] = 0

\* initialize() has been called after time has passed and after a mode
\* override whose ramp rate is still in place.
C14_Witness ==
    /\ op = "initialize"
    /\ now >= UPDATE_INTERVAL_MS
    /\ sim.rpmAcceleration # 0

\* C15: initialize() resets all simulation state: called after any ticks
\* and setMode() calls, it yields the state, in every simulation variable
\* (ramp rate, pulse width, remembered previous throttle and EGO trend
\* included) and every record byte, that initialize() yields on a freshly
\* constructed engine at the same clock reading.
C15_InitializeResetsEverything ==
    (op = "initialize") => sim = initialize(Constructed, now)

\* C16: setMode(m), for every mode m, makes m the current mode at once,
\* restarts the time-in-mode clock at the current time, and sets target
\* RPM, target throttle and ramp rate to the values, with the random draws,
\* that a state-machine transition into m produces.
C16_SetModeIsATransition ==
    [][(op' = "setMode")
          => \E m \in EngineMode :
                /\ arg' = ModeIndex(m)
                /\ sim'.currentMode = m
                /\ sim'.stateStartTime = now
                /\ \E d \in ModeDraws :
                      LET n == transitionToMode(sim, m, d, now)
                      IN /\ sim'.targetRPM = n.targetRPM
                         /\ sim'.targetThrottle = n.targetThrottle
                         /\ sim'.rpmAcceleration = n.rpmAcceleration
                         /\ drawn' = n.rngDraws]_vars

\* LIGHT_LOAD, whose transition draws twice, has been forced after the
\* engine has ticked.
C16_Witness ==
    /\ op = "setMode"
    /\ arg = 3
    /\ sim.currentMode = "LIGHT_LOAD"
    /\ drawn = 2
    /\ sim.loopCounter >= 1
    /\ sim.stateStartTime = now

(***************************************************************************)
(* Properties of the record.                                               *)
(***************************************************************************)

\* C17: the record is modified by initialize() and by accepted update()
\* calls only: processCommands() for every command byte, setMode(),
\* rejected update() calls and every other call leave all 79 bytes as they
\* were.
C17_RecordWrittenByEngineOnly ==
    [][(~(op' = "initialize" \/ (op' = "update" /\ ret' = "true")))
          => StatusBytes(sim'.status) = StatusBytes(sim.status)]_vars

\* The mode has been forced after an accepted tick filled the record and
\* after the queued byte was answered.
C17_Witness ==
    /\ op = "setMode"
    /\ inputPos = 1
    /\ sim.loopCounter >= 1
    /\ sim.status.loopslo = sim.loopCounter
    /\ sim.targetRPM # getRPM(sim.status)

\* C18: within one accepted update() every value a stage takes from another
\* stage was produced earlier in that same update(); in particular the
\* total-correction byte written by an update() is computed from the EGO
\* and IAT corrections that update() derives.
C18_TotalCorrectionFromThisTick ==
    (op = "update" /\ ret = "true") =>
        sim.status.gammae =
            U8(CDiv(sim.status.egocorrection * sim.status.iatcorrection
                        * sim.status.wue, 10000))

\* C19: for every x in 0..65535, setRPM(x) followed by getRPM() returns x,
\* with the low byte stored before the high byte (offsets 15 and 16); the
\* same holds for setMAP/getMAP (offsets 5, 6) and
\* setPulseWidth/getPulseWidth (offsets 21, 22); for every signed 16-bit
\* x, setRPMDot(x) followed by getRPMDot() returns x.
C19_SixteenBitRoundTrip ==
    LET bytes == StatusBytes(sim.status)
        lowFirst(i) == bytes[i + 1] = arg % 256 /\ bytes[i + 2] = arg \div 256
    IN /\ (op = "setRPM") => (getRPM(sim.status) = arg /\ lowFirst(15))
       /\ (op = "setMAP") => (getMAP(sim.status) = arg /\ lowFirst(5))
       /\ (op = "setPulseWidth") =>
              (getPulseWidth(sim.status) = arg /\ lowFirst(21))
       /\ (op = "setRPMDot") => getRPMDot(sim.status) = arg

\* The most negative rate has been stored.
C19_Witness ==
    /\ op = "setRPMDot"
    /\ arg = -32768
    /\ sim.status.rpmdothi = 128
    /\ sim.status.rpmdotlo = 0

\* C20: for every whole-degree temperature x in -40..215, setCoolantTemp(x)
\* followed by getCoolantTemp() returns x and the byte stored is x + 40;
\* the same holds for setIntakeTemp/getIntakeTemp.
C20_TemperatureRoundTrip ==
    /\ (op = "setCoolantTemp") =>
           (getCoolantTemp(sim.status) = arg /\ sim.status.clt = arg + 40)
    /\ (op = "setIntakeTemp") =>
           (getIntakeTemp(sim.status) = arg /\ sim.status.iat = arg + 40)

(***************************************************************************)
(* Properties of the physics stages.                                       *)
(***************************************************************************)

\* C21: after every accepted update(), whatever calls and draws came
\* before, the coolant and the intake temperature lie within -40..215 C,
\* both the internal value (in tenths of a degree) and the value decoded
\* from the record.
C21_TemperaturesWithinLimits ==
    (op = "update" /\ ret = "true") =>
        /\ sim.coolantTemp \in -400 .. 2150
        /\ sim.intakeTemp \in -400 .. 2150
        /\ getCoolantTemp(sim.status) \in -40 .. 215
        /\ getIntakeTemp(sim.status) \in -40 .. 215

\* C22: in every state reachable from initialize() by ticks and setMode()
\* calls, the internal throttle position and the tps byte of the record are
\* both within 0..100.
C22_ThrottleWithinRange ==
    /\ sim.currentThrottle \in 0 .. 100
    /\ sim.status.tps \in 0 .. 100

\* The throttle has reached 100 and a tick published 100 after clamping a
\* noisy reading.
C22_Witness ==
    /\ op = "update" /\ ret = "true"
    /\ sim.currentMode = "WOT"
    /\ sim.currentThrottle = 100
    /\ sim.status.tps = 100

\* C23: after every accepted tick, including the first one after initialize()
\* and the ticks after a setMode(), the published pulse width is within
\* PW_MIN..PW_MAX (10..255).
C23_PulseWidthWithinRange ==
    (op = "update" /\ ret = "true") =>
        getPulseWidth(sim.status) \in PW_MIN .. PW_MAX

\* The first accepted tick after a mode override published the minimum.
C23_Witness ==
    /\ op = "update" /\ ret = "true"
    /\ sim.loopCounter = 1
    /\ getPulseWidth(sim.status) = PW_MIN

\* C24: after every accepted tick the VE byte of the record is within 30..100.
C24_VEWithinRange ==
    (op = "update" /\ ret = "true") => sim.status.ve \in 30 .. 100

\* A tick published a VE that the lower clamp raised to 30.
C24_Witness ==
    /\ op = "update" /\ ret = "true"
    /\ sim.status.ve = 30
    /\ (45 * (50 + sim.currentThrottle \div 2)) \div 100 < 30
    /\ sim.currentRPM < 1000

\* C25: starting from initialize(), forcing Idle, running SettleTicks accepted
\* ticks, reading the record, forcing WOT and running SettleTicks more
\* accepted ticks, the MAP published after the WOT phase is strictly greater
\* than the MAP read after the Idle phase, for every outcome of the draws.
C25_MapHigherAfterWot ==
    (/\ op = "update" /\ ret = "true"
     /\ inputPos = 1
     /\ sim.loopCounter = 2 * SettleTicks)
        => getMAP(sim.status) > outputBuffer[6] + 256 * outputBuffer[7]

\* C26: from initialize() with only ticks applied, the coolant temperature
\* never decreases from one accepted tick to the next while the engine
\* runtime is below WARMUP_TIME_MS, and from the 200th tick on it is strictly
\* above its initial value TEMP_AMBIENT.
C26_MonotonicWarmup ==
    [][(op' = "update" /\ ret' = "true") =>
          /\ (now' - sim'.engineStartTime < WARMUP_TIME_MS
                  => sim'.coolantTemp >= sim.coolantTemp)
          /\ (sim'.loopCounter >= 200 => sim'.coolantTemp > TEMP_AMBIENT)]_vars

\* The 200th tick, 10 s into the warm-up, with the coolant above ambient.
C26_Witness ==
    /\ op = "update" /\ ret = "true"
    /\ sim.loopCounter = 200
    /\ now - sim.engineStartTime < WARMUP_TIME_MS
    /\ sim.coolantTemp > TEMP_AMBIENT

\* C27: a seed fixed by the caller on the injected random source governs the
\* simulation: the engine only draws from the source and never reseeds it, so
\* whenever a tick draws, the one seed the source has been given is the
\* caller's.
C27_CallerSeedGoverns ==
    (op = "update" /\ ret = "true" /\ drawn > 0) => Len(seeds) = 1

\* C28: when the HTTP monitor's realtime read runs concurrently with the
\* driver loop, the ten fields it returns are those of the record as it
\* stood at the end of a single completed tick: the last completed one or,
\* for a read during a tick, the one that tick completes.
C28_ReadsOneCompletedRecord ==
    op = "handleRealtimeData" =>
        IF tick.stage = 0
        THEN written = getRealtimeJSON(sim.status)
        ELSE \/ written = getRealtimeJSON(tick.before.status)
             \/ written = getRealtimeJSON(update(tick.before, tick.d, now).status)

\* The mode values the mode-override endpoint documents.
DocumentedModes == {"idle", "light_load", "acceleration", "high_rpm", "wot"}

\* C29: the mode-override endpoint changes the engine only when its mode
\* parameter is one of the documented values: a request whose mode value is
\* none of these, or that has no mode parameter, leaves the engine's mode,
\* targets and time-in-mode clock unchanged.
C29_OtherRequestsChangeNothing ==
    [][(/\ op' = "handleSetMode"
        /\ \/ Requests[arg'] = <<>>
           \/ Requests[arg'][1] \notin DocumentedModes)
          => /\ sim'.currentMode = sim.currentMode
             /\ sim'.targetRPM = sim.targetRPM
             /\ sim'.targetThrottle = sim.targetThrottle
             /\ sim'.stateStartTime = sim.stateStartTime]_vars

\* The transition table: the edges a tick may take.
TransitionTable ==
    {<<"STARTUP", "WARMUP_IDLE">>, <<"WARMUP_IDLE", "IDLE">>,
     <<"IDLE", "LIGHT_LOAD">>, <<"IDLE", "ACCELERATION">>,
     <<"LIGHT_LOAD", "ACCELERATION">>, <<"LIGHT_LOAD", "DECELERATION">>,
     <<"LIGHT_LOAD", "IDLE">>,
     <<"ACCELERATION", "HIGH_RPM">>, <<"ACCELERATION", "LIGHT_LOAD">>,
     <<"HIGH_RPM", "DECELERATION">>, <<"DECELERATION", "IDLE">>,
     <<"WOT", "HIGH_RPM">>}

\* C30: an accepted tick changes the mode only along an edge of the
\* transition table and takes at most one edge, so the modes before and
\* after it are equal or joined by one edge; no tick enters STARTUP or WOT.
C30_TicksFollowTheTable ==
    [][(op' = "update" /\ ret' = "true") =>
          /\ \/ sim'.currentMode = sim.currentMode
             \/ <<sim.currentMode, sim'.currentMode>> \in TransitionTable
          /\ sim'.currentMode \in {"STARTUP", "WOT"}
                => sim'.currentMode = sim.currentMode]_vars

\* A tick has just taken the edge from HIGH_RPM to DECELERATION: the mode
\* clock restarted at this tick, two seconds after HIGH_RPM was forced.
C30_Witness ==
    /\ op = "update" /\ ret = "true"
    /\ sim.currentMode = "DECELERATION"
    /\ sim.stateStartTime = now
    /\ now > 2000
    /\ modeSeq = <<"STARTUP", "HIGH_RPM", "DECELERATION">>

Distance(a, b) == IF a > b THEN a - b ELSE b - a

\* C31: on every accepted tick, in every mode and whether the RPM is below
\* or above the target, the RPM moves toward the target RPM: apart from the
\* idle fluctuation of at most 10 in the idle modes, the distance between
\* RPM and the tick's target is no larger after the tick than before it.
C31_RpmMovesTowardTarget ==
    [][(op' = "update" /\ ret' = "true") =>
          Distance(sim'.currentRPM, sim'.targetRPM)
              <= Distance(sim.currentRPM, sim'.targetRPM)
                 + (IF sim'.currentMode \in {"IDLE", "WARMUP_IDLE"}
                    THEN 10 ELSE 0)]_vars

\* C32: once the engine is in DECELERATION, accepted ticks without setMode()
\* eventually bring it to IDLE, for every value of the randomized target: a
\* tick in DECELERATION depends on mode, RPM, target and ramp only, so each
\* one either enters IDLE or lowers the RPM, and none leaves them as they
\* were.
C32_DecelerationReachesIdle ==
    [][(op' = "update" /\ ret' = "true" /\ sim.currentMode = "DECELERATION")
          => \/ sim'.currentMode = "IDLE"
             \/ /\ sim'.currentMode = "DECELERATION"
                /\ sim'.currentRPM < sim.currentRPM]_vars

\* C33: after every accepted tick the EGO correction byte is within 90..110:
\* it is exactly 100 in open loop (coolant at or below 50 C, or mode WOT),
\* and in closed loop it differs by exactly 1 from its value before the tick
\* and stays within 90..110.
C33_EgoCorrectionWithinBand ==
    [][(op' = "update" /\ ret' = "true") =>
          IF sim'.coolantTemp <= 500 \/ sim'.currentMode = "WOT"
          THEN sim'.status.egocorrection = 100
          ELSE /\ sim'.status.egocorrection \in 90 .. 110
               /\ Distance(sim'.status.egocorrection,
                           sim.status.egocorrection) = 1]_vars

\* C34: in HIGH_RPM, the first accepted tick at which the time spent in the
\* mode is at least 2 s, exactly 2000 ms included, transitions to
\* DECELERATION, and no tick before that leaves HIGH_RPM.
C34_HighRpmLastsTwoSeconds ==
    [][(op' = "update" /\ ret' = "true" /\ sim.currentMode = "HIGH_RPM") =>
          IF now' - sim.stateStartTime >= 2000
          THEN sim'.currentMode = "DECELERATION"
          ELSE sim'.currentMode = "HIGH_RPM"]_vars

\* The coolant target of a mode, in tenths of a degree.
CoolantTarget(mode) ==
    IF mode \in {"WOT", "HIGH_RPM"} THEN 950
    ELSE IF mode \in {"IDLE", "WARMUP_IDLE"} THEN 750 ELSE 800

\* C35: on every accepted tick the coolant temperature moves toward the
\* target of the tick's mode by a bounded step and never past it: the new
\* value lies between the old value and the target, the step is at most 5%
\* of the gap, or one unit when the gap is not zero, and a coolant equal to
\* the target stays there.
C35_CoolantStepBounded ==
    [][(op' = "update" /\ ret' = "true") =>
          LET target == CoolantTarget(sim'.currentMode)
              old == sim.coolantTemp
              new == sim'.coolantTemp
              gap == Distance(target, old)
              step == Distance(new, old)
          IN /\ Distance(target, new) + step = gap
             /\ gap = 0 => step = 0
             /\ gap # 0 => step >= 1
             /\ step = 1 \/ 100 * step <= 5 * gap]_vars

\* A tick in DECELERATION has brought the coolant down toward the target
\* from the level HIGH_RPM had raised it to.
C35_Witness ==
    /\ op = "update" /\ ret = "true"
    /\ sim.currentMode = "DECELERATION"
    /\ sim.stateStartTime < now
    /\ sim.coolantTemp > CoolantTarget("DECELERATION")

\* C36: after n accepted ticks since initialize() the seconds byte of the
\* record is floor(n / 20) mod 256 and its loops field is n mod 65536, and
\* rejected ticks advance neither.  The driver has update() accepted once
\* per interval, so n is the number of intervals from initialize() to the
\* last accepted update().
C36_CountersFollowTicks ==
    LET n == (sim.lastUpdateTime - sim.engineStartTime) \div UPDATE_INTERVAL_MS
    IN /\ sim.status.secl = (n \div 20) % 256
       /\ sim.status.loopshi * 256 + sim.status.loopslo = n % 65536

\* An update() has been rejected after the 5120th accepted one, at which the
\* seconds byte wrapped to 0.
C36_Witness ==
    /\ op = "update" /\ ret = "false"
    /\ sim.lastUpdateTime - sim.engineStartTime = 5120 * UPDATE_INTERVAL_MS
    /\ sim.status.secl = 0
    /\ sim.status.loopshi * 256 + sim.status.loopslo = 5120

\* C37: on every accepted tick that follows another one, the acceleration
\* enrichment byte is exactly 100 when the published throttle did not rise
\* relative to the previous tick, and exceeds 100 only when it rose.
C37_EnrichmentOnlyOnRise ==
    [][(op' = "update" /\ ret' = "true" /\ sim.loopCounter > 0) =>
          /\ sim'.status.tps <= sim.status.tps
                => sim'.status.taeamount = 100
          /\ sim'.status.taeamount > 100
                => sim'.status.tps > sim.status.tps]_vars

\* C38: the page count in byte 2 of the response to 'Q' equals the page
\* count in byte 0 of the response to 'n', whichever of the two a client
\* has just been sent.
C38_PageCountsAgree ==
    /\ (op = "processCommands" /\ cmdByte = 81)
          => written[3] = handlePageSizesRequest[1]
    /\ (op = "processCommands" /\ cmdByte = 110)
          => written[1] = handleStatusRequest[3]

\* C39: if the transport reports a byte available but the read then yields
\* no byte (a negative result), processCommands() returns false, writes
\* nothing to the transport and changes neither counter.
C39_FailedReadIsNoCommand ==
    [][(/\ op' = "processCommands"
        /\ available(inputBuffer, inputPos) > 0
        /\ read(inputBuffer, inputPos) < 0)
          => /\ ret' = "false"
             /\ written' = <<>>
             /\ outputBuffer' = outputBuffer
             /\ commandCount' = commandCount
             /\ errorCount' = errorCount]_vars

\* A read has failed after an unrecognised byte was counted: the byte is
\* still reported available and both counters stand at 1.
C39_Witness ==
    /\ op = "processCommands" /\ ret = "false"
    /\ available(inputBuffer, inputPos) > 0
    /\ read(inputBuffer, inputPos) < 0
    /\ commandCount = 1
    /\ errorCount = 1

\* C40: in every state reachable after begin(), the error counter is at most
\* the commands-processed counter, the error counter is the number of
\* unrecognised bytes consumed since begin() and the commands-processed
\* counter the number of all bytes consumed since begin(): begin() zeroes
\* both, and every other step adds to them the bytes it consumes.
C40_CountersCountConsumedBytes ==
    [][LET consumed == SubSeq(inputBuffer, inputPos + 1, inputPos')
           unrecognised == {i \in 1 .. Len(consumed) :
                               consumed[i] \notin RecognisedBytes}
       IN /\ errorCount' <= commandCount'
          /\ IF op' = "begin"
             THEN commandCount' = 0 /\ errorCount' = 0
             ELSE /\ commandCount' = commandCount + Len(consumed)
                  /\ errorCount' = errorCount + Cardinality(unrecognised)]_vars

\* After one byte had been consumed begin() was called, and the handler has
\* since consumed one unrecognised byte.
C40_Witness ==
    /\ op = "processCommands" /\ ret = "true"
    /\ inputPos = 2
    /\ cmdByte = 90
    /\ commandCount = 1
    /\ errorCount = 1

====
